---- MODULE Spec2Model ----
(***************************************************************************)
(* Restaurant recommendation engine: preference validation, candidate      *)
(* retrieval, LLM generation with retry/backoff, rule-based fallback and   *)
(* response enrichment.                                                    *)
(*                                                                         *)
(* Conventions of the model:                                               *)
(*   - a Python str is a sequence of one-character strings, so that        *)
(*     lower(), strip() and SQL LIKE are computed, not assumed;            *)
(*   - a Python float is an integer number of tenths (4.5 is 45);          *)
(*   - a Python dict with optional keys is a function whose DOMAIN is the  *)
(*     set of keys present.                                                *)
(***************************************************************************)
EXTENDS Integers, Sequences, FiniteSets, TLC

VARIABLES
    store,            \* rows of the restaurants table, in rowid order
    config,           \* EngineConfig / LLMConfig values and whether llm_service is set
    pc,               \* position of the current call (a request, or svc_* for a direct service call)
    preferences,      \* raw preferences of the current request, or the method called directly
    validation_result,\* ValidationResult of the current request
    filtered_restaurants, \* candidates after _filter_restaurants
    recommendations,  \* shortlist (LLM or fallback)
    attempt,          \* loop variable of generate_recommendations
    llm_log,          \* outcome of each _call_llm/_parse_response of this request
    last_reply,       \* what the latest _call_llm of this request produced
    sleeps,           \* arguments of every time.sleep of this request
    calls,            \* per-request counters of collaborator calls
    source,           \* which generator produced the shortlist
    response          \* value returned (or exception raised) by get_recommendations or
                      \* health_check; the second result of a repeated validation

vars == <<store, config, pc, preferences, validation_result, filtered_restaurants,
          recommendations, attempt, llm_log, last_reply, sleeps, calls, source, response>>

---------------------------------------------------------------------------
(* Bounds of the model *)

MaxStore == 2
MaxResp == 2
MaxRetriesBound == 3
MaxRetryDelay == 2
MaxPresent == 2      \* preference fields given in one request

---------------------------------------------------------------------------
(* Strings *)

LowerChar(c) ==
    CASE c = "A" -> "a"
      [] c = "B" -> "b"
      [] c = "C" -> "c"
      [] c = "D" -> "d"
      [] c = "Z" -> "z"
      [] c = "X" -> "x"
      [] c = "Y" -> "y"
      [] c = "T" -> "t"
      [] OTHER -> c

Lower(s) == [i \in 1..Len(s) |-> LowerChar(s[i])]

RECURSIVE LStrip(_)
LStrip(s) == IF s # <<>> /\ Head(s) = " " THEN LStrip(Tail(s)) ELSE s

RECURSIVE RStrip(_)
RStrip(s) == IF s # <<>> /\ s[Len(s)] = " " THEN RStrip(SubSeq(s, 1, Len(s) - 1)) ELSE s

Strip(s) == RStrip(LStrip(s))

\* SQL: LOWER(text) LIKE LOWER('%' || pat || '%')
\* SQL LIKE: in the pattern "%" stands for any run of characters and "_"
\* for any one character
RECURSIVE LikeMatch(_, _)
LikeMatch(t, pat) ==
    IF pat = <<>> THEN t = <<>>
    ELSE IF Head(pat) = "%"
         THEN \E k \in 0..Len(t) : LikeMatch(SubSeq(t, k + 1, Len(t)), Tail(pat))
         ELSE IF t = <<>> THEN FALSE
              ELSE (Head(pat) = "_" \/ Head(pat) = Head(t)) /\ LikeMatch(Tail(t), Tail(pat))

\* LOWER(column) LIKE LOWER(?) with the parameter f"%{text}%"; the text is
\* not escaped
Like(text, pat) == LikeMatch(Lower(text), <<"%">> \o Lower(pat) \o <<"%">>)

---------------------------------------------------------------------------
(* Raw (untyped) preference values *)

Absent == [t |-> "absent"]
Null == [t |-> "null"]
Str(s) == [t |-> "str", v |-> s]
Num(n) == [t |-> "num", v |-> n]       \* n in tenths
JInt(n) == [t |-> "int", v |-> n]      \* an integer
Other == [t |-> "other"]                \* a list, a dict, ...

IsPresent(x) == x.t \notin {"absent", "null"}

Digits == {"0", "1", "2", "3", "4", "5", "6", "7", "8", "9"}

DigitVal(c) ==
    CASE c = "0" -> 0 [] c = "1" -> 1 [] c = "2" -> 2 [] c = "3" -> 3 [] c = "4" -> 4
      [] c = "5" -> 5 [] c = "6" -> 6 [] c = "7" -> 7 [] c = "8" -> 8 [] c = "9" -> 9

RECURSIVE DigitsVal(_)
DigitsVal(s) ==
    IF s = <<>> THEN 0
    ELSE 10 * DigitsVal(SubSeq(s, 1, Len(s) - 1)) + DigitVal(s[Len(s)])

AllDigits(s) == s # <<>> /\ \A i \in 1..Len(s) : s[i] \in Digits

\* a numeral without its surrounding blanks and sign
Unsigned(s) == LET u == Strip(s) IN IF u # <<>> /\ u[1] = "-" THEN Tail(u) ELSE u
Sign(s) == LET u == Strip(s) IN IF u # <<>> /\ u[1] = "-" THEN -1 ELSE 1

\* int(str): an optional sign and digits
IntNumeral(s) == AllDigits(Unsigned(s))
IntNumeralVal(s) == Sign(s) * DigitsVal(Unsigned(s))

\* float(str): the numerals of the model are digits, or digits "." digit
FloatNumeral(s) ==
    LET b == Unsigned(s) IN
    \/ AllDigits(b)
    \/ /\ Len(b) >= 3
       /\ b[Len(b) - 1] = "."
       /\ b[Len(b)] \in Digits
       /\ AllDigits(SubSeq(b, 1, Len(b) - 2))
\* its value in tenths
FloatNumeralVal(s) ==
    LET b == Unsigned(s) IN
    IF AllDigits(b) THEN Sign(s) * 10 * DigitsVal(b)
    ELSE Sign(s) * (10 * DigitsVal(SubSeq(b, 1, Len(b) - 2)) + DigitVal(b[Len(b)]))

\* float(x) succeeds for numbers and numeral strings; value in tenths
FloatOk(x) == x.t \in {"num", "int"} \/ (x.t = "str" /\ FloatNumeral(x.v))
FloatValue(x) ==
    CASE x.t = "num" -> x.v
      [] x.t = "int" -> 10 * x.v
      [] x.t = "str" -> FloatNumeralVal(x.v)
\* int(x) truncates a number toward zero and parses an integer numeral
Trunc(n) == IF n >= 0 THEN n \div 10 ELSE -((-n) \div 10)
IntOk(x) == x.t \in {"num", "int"} \/ (x.t = "str" /\ IntNumeral(x.v))
IntValue(x) ==
    CASE x.t = "num" -> Trunc(x.v)
      [] x.t = "int" -> x.v
      [] x.t = "str" -> IntNumeralVal(x.v)

---------------------------------------------------------------------------
(* PreferenceProcessor *)

MIN_RATING == 0
MAX_RATING == 50
MIN_PRICE == 0
MAX_PRICE == 100000
MIN_LIMIT == 1
MAX_LIMIT == 100
DEFAULT_LIMIT == 10

VALID_CUISINES == {
    <<"i","t","a","l","i","a","n">>, <<"c","h","i","n","e","s","e">>,
    <<"m","e","x","i","c","a","n">>, <<"i","n","d","i","a","n">>,
    <<"j","a","p","a","n","e","s","e">>, <<"t","h","a","i">>,
    <<"f","r","e","n","c","h">>, <<"a","m","e","r","i","c","a","n">>,
    <<"m","e","d","i","t","e","r","r","a","n","e","a","n">>,
    <<"k","o","r","e","a","n">>, <<"v","i","e","t","n","a","m","e","s","e">>,
    <<"g","r","e","e","k">>, <<"s","p","a","n","i","s","h">>,
    <<"m","i","d","d","l","e"," ","e","a","s","t","e","r","n">>,
    <<"b","r","a","z","i","l","i","a","n">>,
    <<"c","a","r","i","b","b","e","a","n">> }

\* Each _validate_* returns [valid, normalized, error, warning]; "" is no message.
FieldResult(valid, normalized, error, warning) ==
    [valid |-> valid, normalized |-> normalized, error |-> error, warning |-> warning]

_validate_cuisine(cuisine) ==
    IF cuisine.t # "str" THEN FieldResult(FALSE, <<>>, "Cuisine must be a string", "")
    ELSE LET normalized == Lower(Strip(cuisine.v)) IN
         IF normalized = <<>> THEN FieldResult(FALSE, <<>>, "Cuisine cannot be empty", "")
         ELSE IF normalized \notin VALID_CUISINES
              THEN FieldResult(TRUE, normalized, "", "Cuisine is not in the standard list")
              ELSE FieldResult(TRUE, normalized, "", "")

_validate_location(location) ==
    IF location.t # "str" THEN FieldResult(FALSE, <<>>, "Location must be a string", "")
    ELSE LET normalized == Lower(Strip(location.v)) IN
         IF normalized = <<>> THEN FieldResult(FALSE, <<>>, "Location cannot be empty", "")
         ELSE FieldResult(TRUE, normalized, "", "")

_validate_rating(rating) ==
    IF ~FloatOk(rating) THEN FieldResult(FALSE, 0, "Rating must be a number", "")
    ELSE LET rating_float == FloatValue(rating) IN
         IF rating_float < MIN_RATING \/ rating_float > MAX_RATING
         THEN FieldResult(FALSE, 0, "Rating must be between 0.0 and 5.0", "")
         ELSE FieldResult(TRUE, rating_float, "", "")

\* mutant: the normalized price is stored in hundredths
_validate_price_Hundredths(price) ==
    IF ~FloatOk(price) THEN FieldResult(FALSE, 0, "Price must be a number", "")
    ELSE LET price_float == FloatValue(price) IN
         IF price_float < MIN_PRICE THEN FieldResult(FALSE, 0, "Price must be >= 0.0", "")
         ELSE IF price_float > MAX_PRICE THEN FieldResult(FALSE, 0, "Price must be <= 10000.0", "")
         ELSE FieldResult(TRUE, 100 * price_float, "", "")

_validate_price(price) ==
    IF ~FloatOk(price) THEN FieldResult(FALSE, 0, "Price must be a number", "")
    ELSE LET price_float == FloatValue(price) IN
         IF price_float < MIN_PRICE THEN FieldResult(FALSE, 0, "Price must be >= 0.0", "")
         ELSE IF price_float > MAX_PRICE THEN FieldResult(FALSE, 0, "Price must be <= 10000.0", "")
         ELSE FieldResult(TRUE, price_float, "", "")

\* mutant: the bounds themselves are rejected
_validate_limit_Exclusive(limit) ==
    IF ~IntOk(limit) THEN FieldResult(FALSE, 0, "Limit must be an integer", "")
    ELSE LET limit_int == IntValue(limit) IN
         IF limit_int <= MIN_LIMIT \/ limit_int >= MAX_LIMIT
         THEN FieldResult(FALSE, 0, "Limit must be between 1 and 100", "")
         ELSE FieldResult(TRUE, limit_int, "", "")

_validate_limit(limit) ==
    IF ~IntOk(limit) THEN FieldResult(FALSE, 0, "Limit must be an integer", "")
    ELSE LET limit_int == IntValue(limit) IN
         IF limit_int < MIN_LIMIT \/ limit_int > MAX_LIMIT
         THEN FieldResult(FALSE, 0, "Limit must be between 1 and 100", "")
         ELSE FieldResult(TRUE, limit_int, "", "")

Fields == <<"cuisine", "location", "min_rating", "max_price", "limit">>

FieldCheck(prefs, k) ==
    CASE k = "cuisine" -> _validate_cuisine(prefs[k])
      [] k = "location" -> _validate_location(prefs[k])
      [] k = "min_rating" -> _validate_rating(prefs[k])
      [] k = "max_price" -> _validate_price(prefs[k])
      [] k = "limit" -> _validate_limit(prefs[k])

\* mutant: validation stops at the first message
RECURSIVE Collect_FirstOnly(_, _, _)
Collect_FirstOnly(prefs, i, what) ==
    IF i > Len(Fields) THEN <<>>
    ELSE LET k == Fields[i]
             msg == IF IsPresent(prefs[k]) THEN FieldCheck(prefs, k)[what] ELSE ""
         IN IF msg = "" THEN Collect_FirstOnly(prefs, i + 1, what) ELSE <<msg>>

\* Messages of the present fields, in the order the fields are checked.
RECURSIVE Collect(_, _, _)
Collect(prefs, i, what) ==
    IF i > Len(Fields) THEN <<>>
    ELSE LET k == Fields[i]
             msg == IF IsPresent(prefs[k]) THEN FieldCheck(prefs, k)[what] ELSE ""
         IN (IF msg = "" THEN <<>> ELSE <<msg>>) \o Collect(prefs, i + 1, what)

validate_and_normalize(prefs) ==
    LET ok(k) == IsPresent(prefs[k]) /\ FieldCheck(prefs, k).valid
        keys == {k \in {"cuisine", "location", "min_rating", "max_price", "limit"} : ok(k)}
                  \cup (IF IsPresent(prefs["limit"]) THEN {} ELSE {"limit"})
        errors == Collect(prefs, 1, "error")
        present == {k \in {"cuisine", "location", "min_rating", "max_price", "limit"} :
                       IsPresent(prefs[k])}
    IN [is_valid |-> \A k \in present : FieldCheck(prefs, k).valid,
        errors |-> errors,
        warnings |-> Collect(prefs, 1, "warning"),
        normalized_preferences |->
            [k \in keys |-> IF k = "limit" /\ ~IsPresent(prefs["limit"])
                            THEN DEFAULT_LIMIT
                            ELSE FieldCheck(prefs, k).normalized]]

get_filter_summary(prefs) ==
    [k \in DOMAIN prefs \cap {"cuisine", "location", "min_rating", "max_price", "limit"} |-> prefs[k]]

---------------------------------------------------------------------------
(* DatabaseService *)

Has(d, k) == k \in DOMAIN d
Get(d, k, default) == IF k \in DOMAIN d THEN d[k] ELSE default

Min(a, b) == IF a < b THEN a ELSE b

\* WHERE clause built by filter_restaurants from the normalized preferences
RowMatches(row, prefs) ==
    /\ (Has(prefs, "cuisine") /\ prefs["cuisine"] # <<>>) => Like(row.cuisine, prefs["cuisine"])
    /\ (Has(prefs, "location") /\ prefs["location"] # <<>>) => Like(row.location, prefs["location"])
    /\ Has(prefs, "min_rating") => row.rating >= prefs["min_rating"]
    /\ Has(prefs, "max_price") => row.price <= prefs["max_price"]

\* ORDER BY rating DESC, price ASC: a strictly precedes b
OrderedBefore(a, b) == a.rating > b.rating \/ (a.rating = b.rating /\ a.price < b.price)

\* Every result the query may return: the matching rows in an order that
\* respects ORDER BY (SQL leaves the order of ties open), cut at LIMIT.
filter_restaurants(rows, prefs, limit) ==
    LET idx == {i \in 1..Len(rows) : RowMatches(rows[i], prefs)}
        n == Cardinality(idx)
        orders == {p \in [1..n -> idx] :
                      /\ \A i, j \in 1..n : i # j => p[i] # p[j]
                      /\ \A i, j \in 1..n : i < j => ~OrderedBefore(rows[p[j]], rows[p[i]])}
    IN {[i \in 1..Min(n, limit) |-> rows[p[i]]] : p \in orders}

---------------------------------------------------------------------------
(* Python helpers *)

\* sorted(seq, key=..., reverse=True), where greater[i][j] is
\* key(seq[i]) > key(seq[j]): descending, and stable (equal keys keep their
\* input order).
SortedReverse(seq, greater) ==
    LET n == Len(seq)
        rank(i) == 1 + Cardinality({j \in 1..n :
                        \/ greater[j][i]
                        \/ (~greater[i][j] /\ j < i)})
    IN [r \in 1..n |-> seq[CHOOSE i \in 1..n : rank(i) = r]]

Identity(r) == <<Lower(r.name), Lower(r.location)>>

RuleExplanation(r) == <<"Highly rated restaurant with", r.rating, "/5.0 stars">>

---------------------------------------------------------------------------
(* RecommendationEngine helpers *)

\* mutant: the loop appends every row
DedupRows_KeepAll(results, seen) == results

\* the deduplication loop of _filter_restaurants over the query result
RECURSIVE DedupRows(_, _)
DedupRows(results, seen) ==
    IF results = <<>> THEN <<>>
    ELSE LET restaurant == Head(results)
             key == Identity(restaurant)
         IN IF key \notin seen
            THEN <<restaurant>> \o DedupRows(Tail(results), seen \cup {key})
            ELSE DedupRows(Tail(results), seen)

\* every value _filter_restaurants may return
_filter_restaurants(rows, prefs, max_limit) ==
    {DedupRows(results, {}) : results \in filter_restaurants(rows, prefs, max_limit)}

\* mutant: the key takes the price as it is, so the dearer one of two equally
\* rated restaurants comes first
_generate_fallback_recommendations_DearFirst(restaurants, limit) ==
    LET KeyGreater(a, b) == a.rating > b.rating \/ (a.rating = b.rating /\ a.price > b.price)
        n == Len(restaurants)
        greater == [i \in 1..n |-> [j \in 1..n |-> KeyGreater(restaurants[i], restaurants[j])]]
        sorted_restaurants == SortedReverse(restaurants, greater)
    IN [i \in 1..Min(limit, Len(sorted_restaurants)) |->
           [name |-> sorted_restaurants[i].name,
            explanation |-> RuleExplanation(sorted_restaurants[i])]]

_generate_fallback_recommendations(restaurants, limit) ==
    LET \* key=lambda r: (r.get('rating', 0), -r.get('price', float('inf')))
        KeyGreater(a, b) == a.rating > b.rating \/ (a.rating = b.rating /\ -a.price > -b.price)
        n == Len(restaurants)
        greater == [i \in 1..n |-> [j \in 1..n |-> KeyGreater(restaurants[i], restaurants[j])]]
        sorted_restaurants == SortedReverse(restaurants, greater)
    IN [i \in 1..Min(limit, Len(sorted_restaurants)) |->
           [name |-> sorted_restaurants[i].name,
            explanation |-> RuleExplanation(sorted_restaurants[i])]]

\* mutant: a name that is not a key gets the record of the first candidate
LookupIndex_Default(restaurants, name_lower) ==
    LET hits == {i \in 1..Len(restaurants) : Lower(restaurants[i].name) = name_lower}
    IN IF hits = {} THEN (IF restaurants = <<>> THEN 0 ELSE 1)
       ELSE CHOOSE i \in hits : \A j \in hits : j <= i

\* restaurant_lookup: a later candidate of the same lowercased name overwrites
\* an earlier one; 0 when the name is not a key
LookupIndex(restaurants, name_lower) ==
    LET hits == {i \in 1..Len(restaurants) : Lower(restaurants[i].name) = name_lower}
    IN IF hits = {} THEN 0 ELSE CHOOSE i \in hits : \A j \in hits : j <= i

\* the loop of _enrich_recommendations; seen holds bare names (seen_names)
\* and (name, location) tuples (seen_keys)
RECURSIVE EnrichLoop(_, _, _, _)
EnrichLoop(recs, restaurants, seen_names, seen_keys) ==
    IF recs = <<>> THEN <<>>
    ELSE LET rec == Head(recs)
             name == rec.name
             name_lower == Lower(name)
             k == LookupIndex(restaurants, name_lower)
         IN IF name_lower \in seen_names
            THEN EnrichLoop(Tail(recs), restaurants, seen_names, seen_keys)
            ELSE IF k # 0
            THEN LET restaurant_data == restaurants[k]
                     unique_key == <<name_lower, Lower(restaurant_data.location)>>
                 IN IF unique_key \notin seen_keys
                    THEN <<[name |-> restaurant_data.name,
                            cuisine |-> restaurant_data.cuisine,
                            location |-> restaurant_data.location,
                            rating |-> restaurant_data.rating,
                            price |-> restaurant_data.price,
                            explanation |-> rec.explanation]>>
                         \o EnrichLoop(Tail(recs), restaurants, seen_names,
                                       seen_keys \cup {unique_key})
                    ELSE EnrichLoop(Tail(recs), restaurants, seen_names, seen_keys)
            ELSE <<[name |-> name,
                    explanation |-> rec.explanation,
                    note |-> "Full details not available"]>>
                 \o EnrichLoop(Tail(recs), restaurants, seen_names \cup {name_lower}, seen_keys)

_enrich_recommendations(recs, restaurants) == EnrichLoop(recs, restaurants, {}, {})

---------------------------------------------------------------------------
(* LLMService *)

\* An LLM reply: _call_llm raises ("error"), or returns a completion whose
\* content is empty, is not JSON, or decodes to a JSON value.
IsValidItem(rec) == rec.isdict /\ Has(rec.d, "name") /\ Has(rec.d, "explanation")

DigitChar(d) ==
    CASE d = 0 -> "0" [] d = 1 -> "1" [] d = 2 -> "2" [] d = 3 -> "3" [] d = 4 -> "4"
      [] d = 5 -> "5" [] d = 6 -> "6" [] d = 7 -> "7" [] d = 8 -> "8" [] d = 9 -> "9"

RECURSIVE NatStr(_)
NatStr(n) == IF n < 10 THEN <<DigitChar(n)>> ELSE Append(NatStr(n \div 10), DigitChar(n % 10))

\* str(value) of a decoded JSON value: a string is itself, an integer is its
\* decimal numeral, null is "None"
PyStr(x) ==
    CASE x.t = "str" -> x.v
      [] x.t = "int" -> IF x.v < 0 THEN <<"-">> \o NatStr(-x.v) ELSE NatStr(x.v)
      [] x.t = "null" -> <<"N", "o", "n", "e">>

\* mutant: a repeated name is kept
RECURSIVE ParseLoop_NoDedup(_, _)
ParseLoop_NoDedup(items, seen) ==
    IF items = <<>> THEN <<>>
    ELSE LET rec == Head(items) IN
         IF IsValidItem(rec)
         THEN <<[name |-> PyStr(rec.d["name"]), explanation |-> PyStr(rec.d["explanation"])]>>
              \o ParseLoop_NoDedup(Tail(items), seen)
         ELSE ParseLoop_NoDedup(Tail(items), seen)

\* the validation loop of _parse_response
RECURSIVE ParseLoop(_, _)
ParseLoop(items, seen) ==
    IF items = <<>> THEN <<>>
    ELSE LET rec == Head(items) IN
         IF IsValidItem(rec)
         THEN LET name == PyStr(rec.d["name"])
                  name_lower == Lower(name)
              IN IF name_lower \in seen
                 THEN ParseLoop(Tail(items), seen)
                 ELSE <<[name |-> name, explanation |-> PyStr(rec.d["explanation"])]>>
                      \o ParseLoop(Tail(items), seen \cup {name_lower})
         ELSE ParseLoop(Tail(items), seen)

\* mutant: a reply without a valid item raises like an unparseable one
ParseFails_EmptyRaises(reply) ==
    IF reply.kind \in {"error", "empty", "badjson", "scalar", "dict_norecs"}
    THEN TRUE
    ELSE \A i \in 1..Len(reply.items) : ~IsValidItem(reply.items[i])

\* does _call_llm + _parse_response raise on this reply?
ParseFails(reply) == reply.kind \in {"error", "empty", "badjson", "scalar", "dict_norecs"}

_parse_response(reply) == ParseLoop(reply.items, {})

generate_fallback_recommendations(restaurants, limit) ==
    LET \* key=lambda r: r.get('rating', 0)
        n == Len(restaurants)
        greater == [i \in 1..n |-> [j \in 1..n |-> restaurants[i].rating > restaurants[j].rating]]
        sorted_restaurants == SortedReverse(restaurants, greater)
        deduped == DedupRows(sorted_restaurants, {})
    IN IF restaurants = <<>> THEN <<>>
       ELSE \* the loop appends before it tests len(recommendations) >= limit
            [i \in 1..Min(IF limit < 1 THEN 1 ELSE limit, Len(deduped)) |->
               [name |-> deduped[i].name, explanation |-> RuleExplanation(deduped[i])]]

---------------------------------------------------------------------------
(* Inputs of the model *)

Thai == <<"t","h","a","i">>
Greek == <<"g","r","e","e","k">>

Row(name, cuisine, location, rating, price) ==
    [name |-> name, cuisine |-> cuisine, location |-> location,
     rating |-> rating, price |-> price]

\* "A"/"a" at "x" are one identity; "A" at "y" shares only the name
StoreRows == {
    Row(<<"A">>, Thai, <<"x">>, 45, 200),
    Row(<<"a">>, Thai, <<"x">>, 40, 100),
    Row(<<"A">>, Thai, <<"y">>, 40, 100),
    Row(<<"B">>, Greek, <<"X">>, 45, 300) }

RECURSIVE SeqsUpTo(_, _)
SeqsUpTo(S, n) ==
    IF n = 0 THEN {<<>>}
    ELSE LET shorter == SeqsUpTo(S, n - 1)
         IN shorter \cup {Append(q, x) : q \in {r \in shorter : Len(r) = n - 1}, x \in S}

Stores == SeqsUpTo(StoreRows, MaxStore)

EngineDefaultLimit == 10
EngineMaxLimit == 100

Configs ==
    {[llm_service |-> FALSE, max_retries |-> 0, retry_delay |-> 0,
      default_limit |-> EngineDefaultLimit, max_limit |-> EngineMaxLimit]}
    \cup {[llm_service |-> TRUE, max_retries |-> m, retry_delay |-> d,
           default_limit |-> EngineDefaultLimit, max_limit |-> EngineMaxLimit] :
             m \in 0..MaxRetriesBound, d \in 1..MaxRetryDelay}

PreferenceValues ==
    [cuisine : {Absent, Str(<<" ","T","h","a","i">>), Num(1230)},
     location : {Absent, Str(<<"X">>), Str(<<"_">>)},
     min_rating : {Absent, Num(45), Num(51)},
     max_price : {Absent, Num(250)},
     limit : {Absent, Num(10), Num(25), Num(0)}]

PreferenceInputs ==
    {p \in PreferenceValues :
        Cardinality({k \in DOMAIN p : IsPresent(p[k])}) <= MaxPresent}

Dict(d) == [isdict |-> TRUE, d |-> d]
NonDict == [isdict |-> FALSE]

ResponseItems == {
    Dict([name |-> Str(<<"A">>), explanation |-> Str(<<"e1">>)]),
    Dict([name |-> Str(<<"a">>), explanation |-> Str(<<"e2">>)]),
    Dict([name |-> Str(<<"B">>), explanation |-> Str(<<"e3">>)]),
    Dict([name |-> Str(<<"B">>)]),
    NonDict }

LLMReplies ==
    {[kind |-> k] : k \in {"error", "empty", "badjson", "scalar", "dict_norecs"}}
    \cup {[kind |-> k, items |-> L] : k \in {"list", "dict"}, L \in SeqsUpTo(ResponseItems, MaxResp)}

\* errors counts the exceptions other than LLMServiceError raised inside
\* get_recommendations
NoCalls == [store |-> 0, llm |-> 0, llm_fallback |-> 0, engine_fallback |-> 0, errors |-> 0]
NoValidation == [none |-> TRUE]
NoResponse == [none |-> TRUE]
NoReply == [kind |-> "none"]

---------------------------------------------------------------------------
(* State machine of one engine serving requests one after another *)

Init ==
    /\ store \in Stores
    /\ config \in Configs
    /\ pc = "idle"
    /\ preferences = [none |-> TRUE]
    /\ validation_result = NoValidation
    /\ filtered_restaurants = <<>>
    /\ recommendations = <<>>
    /\ attempt = 0
    /\ llm_log = <<>>
    /\ last_reply = NoReply
    /\ sleeps = <<>>
    /\ calls = NoCalls
    /\ source = "none"
    /\ response = NoResponse

normalized_prefs == validation_result.normalized_preferences
limit == Get(normalized_prefs, "limit", config.default_limit)

\* get_recommendations, step 1: validation fails
ValidateInvalid ==
    /\ pc = "idle"
    /\ \E p \in PreferenceInputs :
         LET v == validate_and_normalize(p) IN
         /\ ~v.is_valid
         /\ preferences' = p
         /\ validation_result' = v
         /\ response' = [success |-> FALSE, error |-> "Invalid preferences",
                         details |-> v.errors, warnings |-> v.warnings]
    /\ pc' = "done"
    /\ UNCHANGED <<store, config, filtered_restaurants, recommendations, attempt,
                   llm_log, last_reply, sleeps, calls, source>>

\* mutant: the request goes on whatever validation said
ValidateOk_Unchecked ==
    /\ pc = "idle"
    /\ \E p \in PreferenceInputs :
         /\ preferences' = p
         /\ validation_result' = validate_and_normalize(p)
    /\ pc' = "filter"
    /\ UNCHANGED <<store, config, filtered_restaurants, recommendations, attempt,
                   llm_log, last_reply, sleeps, calls, source, response>>

\* get_recommendations, step 1: validation succeeds
ValidateOk ==
    /\ pc = "idle"
    /\ \E p \in PreferenceInputs :
         LET v == validate_and_normalize(p) IN
         /\ v.is_valid
         /\ preferences' = p
         /\ validation_result' = v
    /\ pc' = "filter"
    /\ UNCHANGED <<store, config, filtered_restaurants, recommendations, attempt,
                   llm_log, last_reply, sleeps, calls, source, response>>

\* mutant: a failed store query is answered like an empty one
FilterError_Swallowed ==
    /\ pc = "filter"
    /\ calls' = [calls EXCEPT !.store = @ + 1, !.errors = @ + 1]
    /\ response' = [success |-> TRUE, recommendations |-> <<>>, returned |-> 0,
                    total_found |-> 0,
                    message |-> "No restaurants found matching your preferences",
                    filters_applied |-> get_filter_summary(normalized_prefs),
                    warnings |-> validation_result.warnings]
    /\ pc' = "done"
    /\ UNCHANGED <<store, config, preferences, validation_result, filtered_restaurants,
                   recommendations, attempt, llm_log, last_reply, sleeps, source>>

\* step 2: the store query raises sqlite3.Error; the outer handler wraps it
FilterError ==
    /\ pc = "filter"
    /\ calls' = [calls EXCEPT !.store = @ + 1, !.errors = @ + 1]
    /\ response' = [raised |-> "RecommendationEngineError"]
    /\ pc' = "done"
    /\ UNCHANGED <<store, config, preferences, validation_result, filtered_restaurants,
                   recommendations, attempt, llm_log, last_reply, sleeps, source>>

\* mutant: an empty retrieval goes on to step 3
FilterEmpty_AsksLLM ==
    /\ pc = "filter"
    /\ \E f \in _filter_restaurants(store, normalized_prefs, config.max_limit) :
         /\ f = <<>>
         /\ filtered_restaurants' = f
    /\ calls' = [calls EXCEPT !.store = @ + 1]
    /\ pc' = "generate"
    /\ UNCHANGED <<store, config, preferences, validation_result, recommendations,
                   attempt, llm_log, last_reply, sleeps, source, response>>

\* step 2: no candidate
FilterEmpty ==
    /\ pc = "filter"
    /\ \E f \in _filter_restaurants(store, normalized_prefs, config.max_limit) :
         /\ f = <<>>
         /\ filtered_restaurants' = f
    /\ calls' = [calls EXCEPT !.store = @ + 1]
    /\ response' = [success |-> TRUE, recommendations |-> <<>>, returned |-> 0,
                    total_found |-> 0,
                    message |-> "No restaurants found matching your preferences",
                    filters_applied |-> get_filter_summary(normalized_prefs),
                    warnings |-> validation_result.warnings]
    /\ pc' = "done"
    /\ UNCHANGED <<store, config, preferences, validation_result, recommendations,
                   attempt, llm_log, last_reply, sleeps, source>>

\* step 2: candidates found
FilterFound ==
    /\ pc = "filter"
    /\ \E f \in _filter_restaurants(store, normalized_prefs, config.max_limit) :
         /\ f # <<>>
         /\ filtered_restaurants' = f
    /\ calls' = [calls EXCEPT !.store = @ + 1]
    /\ pc' = "generate"
    /\ UNCHANGED <<store, config, preferences, validation_result, recommendations,
                   attempt, llm_log, last_reply, sleeps, source, response>>

\* step 3 without an LLM service: the engine's own fallback
EngineFallback ==
    /\ pc = "generate"
    /\ ~config.llm_service
    /\ recommendations' = _generate_fallback_recommendations(filtered_restaurants, limit)
    /\ calls' = [calls EXCEPT !.engine_fallback = @ + 1]
    /\ source' = "engine_fallback"
    /\ pc' = "enrich"
    /\ UNCHANGED <<store, config, preferences, validation_result, filtered_restaurants,
                   attempt, llm_log, last_reply, sleeps, response>>

\* mutant: the same delay before every retry
BackoffDelay_Constant(retry_delay, a) == retry_delay

\* delay = retry_delay * (2 ** attempt)
BackoffDelay(retry_delay, a) == retry_delay * (2 ^ a)

\* generate_recommendations: one iteration of the retry loop that returns
LLMAttemptOk ==
    /\ pc = "generate"
    /\ config.llm_service
    /\ attempt < config.max_retries
    /\ \E r \in LLMReplies :
         /\ ~ParseFails(r)
         /\ last_reply' = r
         /\ recommendations' = _parse_response(r)
    /\ calls' = [calls EXCEPT !.llm = @ + 1]
    /\ llm_log' = Append(llm_log, "ok")
    /\ source' = "llm"
    /\ pc' = "enrich"
    /\ UNCHANGED <<store, config, preferences, validation_result, filtered_restaurants,
                   attempt, sleeps, response>>

\* mutant: the first failure already raises LLMServiceError
LLMAttemptFail_NoRetry ==
    /\ pc = "generate"
    /\ config.llm_service
    /\ attempt < config.max_retries
    /\ \E r \in LLMReplies :
         /\ ParseFails(r)
         /\ last_reply' = r
    /\ calls' = [calls EXCEPT !.llm = @ + 1]
    /\ llm_log' = Append(llm_log, "fail")
    /\ pc' = "llm_error"
    /\ UNCHANGED <<store, config, preferences, validation_result, filtered_restaurants,
                   recommendations, source, response, sleeps, attempt>>

\* mutant: the test for the last attempt is off by one, so the last failure
\* sleeps too and the loop runs out
LLMAttemptFail_OffByOne ==
    /\ pc = "generate"
    /\ config.llm_service
    /\ attempt < config.max_retries
    /\ \E r \in LLMReplies :
         /\ ParseFails(r)
         /\ last_reply' = r
    /\ calls' = [calls EXCEPT !.llm = @ + 1]
    /\ llm_log' = Append(llm_log, "fail")
    /\ sleeps' = Append(sleeps, config.retry_delay * (2 ^ attempt))
    /\ attempt' = attempt + 1
    /\ pc' = "generate"
    /\ UNCHANGED <<store, config, preferences, validation_result, filtered_restaurants,
                   recommendations, source, response>>

\* mutant: a failed iteration sleeps and goes on without being counted
LLMAttemptFail_Uncounted ==
    /\ pc = "generate"
    /\ config.llm_service
    /\ attempt < config.max_retries
    /\ \E r \in LLMReplies :
         /\ ParseFails(r)
         /\ last_reply' = r
    /\ pc' = "generate"
    /\ UNCHANGED <<store, config, preferences, validation_result, filtered_restaurants,
                   recommendations, source, response, calls, llm_log, sleeps, attempt>>

\* generate_recommendations: one iteration that fails; it sleeps and goes on,
\* or raises LLMServiceError when it was the last one
LLMAttemptFail ==
    /\ pc = "generate"
    /\ config.llm_service
    /\ attempt < config.max_retries
    /\ \E r \in LLMReplies :
         /\ ParseFails(r)
         /\ last_reply' = r
    /\ calls' = [calls EXCEPT !.llm = @ + 1]
    /\ llm_log' = Append(llm_log, "fail")
    /\ IF attempt < config.max_retries - 1
       THEN /\ sleeps' = Append(sleeps, BackoffDelay(config.retry_delay, attempt))
            /\ attempt' = attempt + 1
            /\ pc' = "generate"
       ELSE /\ pc' = "llm_error"
            /\ UNCHANGED <<sleeps, attempt>>
    /\ UNCHANGED <<store, config, preferences, validation_result, filtered_restaurants,
                   recommendations, source, response>>

\* generate_recommendations: the loop ends without an iteration having
\* returned or raised, and the function returns []
LLMLoopEnd ==
    /\ pc = "generate"
    /\ config.llm_service
    /\ attempt >= config.max_retries
    /\ recommendations' = <<>>
    /\ source' = "llm"
    /\ pc' = "enrich"
    /\ UNCHANGED <<store, config, preferences, validation_result, filtered_restaurants,
                   attempt, llm_log, last_reply, sleeps, calls, response>>

\* mutant: the engine lets LLMServiceError through to its outer handler
LLMFallback_Reraise ==
    /\ pc = "llm_error"
    /\ response' = [raised |-> "RecommendationEngineError"]
    /\ pc' = "done"
    /\ UNCHANGED <<store, config, preferences, validation_result, filtered_restaurants,
                   recommendations, attempt, llm_log, last_reply, sleeps, calls, source>>

\* step 3: the engine catches LLMServiceError and asks the service's fallback
LLMFallback ==
    /\ pc = "llm_error"
    /\ recommendations' = generate_fallback_recommendations(filtered_restaurants, limit)
    /\ calls' = [calls EXCEPT !.llm_fallback = @ + 1]
    /\ source' = "llm_fallback"
    /\ pc' = "enrich"
    /\ UNCHANGED <<store, config, preferences, validation_result, filtered_restaurants,
                   attempt, llm_log, last_reply, sleeps, response>>

\* steps 4 and 5: enrich and build the response
Enrich ==
    /\ pc = "enrich"
    /\ LET enriched_recommendations ==
               _enrich_recommendations(recommendations, filtered_restaurants)
       IN response' = [success |-> TRUE,
                       recommendations |-> enriched_recommendations,
                       total_found |-> Len(filtered_restaurants),
                       returned |-> Len(enriched_recommendations),
                       filters_applied |-> get_filter_summary(normalized_prefs),
                       warnings |-> validation_result.warnings]
    /\ pc' = "done"
    /\ UNCHANGED <<store, config, preferences, validation_result, filtered_restaurants,
                   recommendations, attempt, llm_log, last_reply, sleeps, calls, source>>

\* step 4 raises an unexpected exception; the outer handler wraps it
EnrichError ==
    /\ pc = "enrich"
    /\ calls' = [calls EXCEPT !.errors = @ + 1]
    /\ response' = [raised |-> "RecommendationEngineError"]
    /\ pc' = "done"
    /\ UNCHANGED <<store, config, preferences, validation_result, filtered_restaurants,
                   recommendations, attempt, llm_log, last_reply, sleeps, source>>

\* the call has returned; the engine is ready for the next request
Return ==
    /\ pc = "done"
    /\ pc' = "idle"
    /\ preferences' = [none |-> TRUE]
    /\ validation_result' = NoValidation
    /\ filtered_restaurants' = <<>>
    /\ recommendations' = <<>>
    /\ attempt' = 0
    /\ llm_log' = <<>>
    /\ last_reply' = NoReply
    /\ sleeps' = <<>>
    /\ calls' = NoCalls
    /\ source' = "none"
    /\ response' = NoResponse
    /\ UNCHANGED <<store, config>>

Next ==
    \/ ValidateInvalid
    \/ ValidateOk
    \/ FilterError
    \/ FilterEmpty
    \/ FilterFound
    \/ EngineFallback
    \/ LLMAttemptOk
    \/ LLMAttemptFail
    \/ LLMLoopEnd
    \/ LLMFallback
    \/ Enrich
    \/ Return

Spec == Init /\ [][Next]_vars

---------------------------------------------------------------------------
(* The engine and its LLM service under every use: requests, an unexpected
   exception inside a request, and direct calls of the service's methods *)

MaxServiceStore == 1
MaxCandidates == 2
MaxServiceLimit == 2

ServiceStores == SeqsUpTo(StoreRows, MaxServiceStore)
CandidateLists == SeqsUpTo(StoreRows, MaxCandidates)

\* items whose name or explanation is empty, null or a number
ParseItems == {
    Dict([name |-> Str(<<"A">>), explanation |-> Str(<<"e1">>)]),
    Dict([name |-> Str(<<>>), explanation |-> Str(<<"e2">>)]),
    Dict([name |-> Str(<<"B">>), explanation |-> Str(<<>>)]),
    Dict([name |-> JInt(7), explanation |-> Str(<<"e3">>)]),
    Dict([name |-> Str(<<"C">>), explanation |-> Null]),
    Dict([name |-> Str(<<"D">>)]),
    Dict([explanation |-> Str(<<"e4">>)]),
    NonDict }

ParseReplies ==
    {[kind |-> k] : k \in {"empty", "badjson", "scalar", "dict_norecs"}}
    \cup {[kind |-> k, items |-> L] : k \in {"list", "dict"}, L \in SeqsUpTo(ParseItems, MaxResp)}

InitService ==
    /\ store \in ServiceStores
    /\ config \in Configs
    /\ pc = "idle"
    /\ preferences = [none |-> TRUE]
    /\ validation_result = NoValidation
    /\ filtered_restaurants = <<>>
    /\ recommendations = <<>>
    /\ attempt = 0
    /\ llm_log = <<>>
    /\ last_reply = NoReply
    /\ sleeps = <<>>
    /\ calls = NoCalls
    /\ source = "none"
    /\ response = NoResponse

\* a caller invokes LLMService.generate_recommendations on a list of its own
ServiceCallGenerate ==
    /\ pc = "idle"
    /\ config.llm_service
    /\ \E restaurants \in ServiceStores : filtered_restaurants' = restaurants
    /\ preferences' = [direct |-> "generate_recommendations"]
    /\ pc' = "svc_generate"
    /\ UNCHANGED <<store, config, validation_result, recommendations, attempt, llm_log,
                   last_reply, sleeps, calls, source, response>>

\* generate_recommendations: if not restaurants: return []
GenerateNoRestaurants ==
    /\ pc = "svc_generate"
    /\ filtered_restaurants = <<>>
    /\ recommendations' = <<>>
    /\ pc' = "svc_returned"
    /\ UNCHANGED <<store, config, preferences, validation_result, filtered_restaurants,
                   attempt, llm_log, last_reply, sleeps, calls, source, response>>

\* the retry loop of a direct call: an iteration that returns
ServiceAttemptOk ==
    /\ pc = "svc_generate"
    /\ filtered_restaurants # <<>>
    /\ attempt < config.max_retries
    /\ \E r \in LLMReplies :
         /\ ~ParseFails(r)
         /\ last_reply' = r
         /\ recommendations' = _parse_response(r)
    /\ calls' = [calls EXCEPT !.llm = @ + 1]
    /\ llm_log' = Append(llm_log, "ok")
    /\ pc' = "svc_returned"
    /\ UNCHANGED <<store, config, preferences, validation_result, filtered_restaurants,
                   attempt, sleeps, source, response>>

\* the retry loop of a direct call: an iteration that fails
ServiceAttemptFail ==
    /\ pc = "svc_generate"
    /\ filtered_restaurants # <<>>
    /\ attempt < config.max_retries
    /\ \E r \in LLMReplies :
         /\ ParseFails(r)
         /\ last_reply' = r
    /\ calls' = [calls EXCEPT !.llm = @ + 1]
    /\ llm_log' = Append(llm_log, "fail")
    /\ IF attempt < config.max_retries - 1
       THEN /\ sleeps' = Append(sleeps, BackoffDelay(config.retry_delay, attempt))
            /\ attempt' = attempt + 1
            /\ pc' = "svc_generate"
       ELSE /\ pc' = "svc_raised"
            /\ UNCHANGED <<sleeps, attempt>>
    /\ UNCHANGED <<store, config, preferences, validation_result, filtered_restaurants,
                   recommendations, source, response>>

\* the retry loop of a direct call ends without an iteration
ServiceLoopEnd ==
    /\ pc = "svc_generate"
    /\ filtered_restaurants # <<>>
    /\ attempt >= config.max_retries
    /\ recommendations' = <<>>
    /\ pc' = "svc_returned"
    /\ UNCHANGED <<store, config, preferences, validation_result, filtered_restaurants,
                   attempt, llm_log, last_reply, sleeps, calls, source, response>>

\* a caller invokes LLMService.generate_fallback_recommendations on a list
\* in any order
ServiceCallFallback ==
    /\ pc = "idle"
    /\ config.llm_service
    /\ \E restaurants \in CandidateLists, n \in 1..MaxServiceLimit :
         /\ filtered_restaurants' = restaurants
         /\ preferences' = [direct |-> "generate_fallback_recommendations", limit |-> n]
         /\ recommendations' = generate_fallback_recommendations(restaurants, n)
    /\ calls' = [calls EXCEPT !.llm_fallback = @ + 1]
    /\ pc' = "svc_returned"
    /\ UNCHANGED <<store, config, validation_result, attempt, llm_log, last_reply,
                   sleeps, source, response>>

\* a caller invokes LLMService._parse_response on a completion
ServiceCallParse ==
    /\ pc = "idle"
    /\ config.llm_service
    /\ \E r \in ParseReplies :
         /\ last_reply' = r
         /\ IF ParseFails(r)
            THEN pc' = "svc_raised" /\ UNCHANGED recommendations
            ELSE pc' = "svc_returned" /\ recommendations' = _parse_response(r)
    /\ preferences' = [direct |-> "_parse_response"]
    /\ UNCHANGED <<store, config, validation_result, filtered_restaurants, attempt,
                   llm_log, sleeps, calls, source, response>>

\* the direct call has returned or raised; the caller may call again
ServiceReturn ==
    /\ pc \in {"svc_returned", "svc_raised"}
    /\ pc' = "idle"
    /\ preferences' = [none |-> TRUE]
    /\ filtered_restaurants' = <<>>
    /\ recommendations' = <<>>
    /\ attempt' = 0
    /\ llm_log' = <<>>
    /\ last_reply' = NoReply
    /\ sleeps' = <<>>
    /\ calls' = NoCalls
    /\ UNCHANGED <<store, config, validation_result, source, response>>

NextService ==
    \/ Next
    \/ EnrichError
    \/ ServiceCallGenerate
    \/ GenerateNoRestaurants
    \/ ServiceAttemptOk
    \/ ServiceAttemptFail
    \/ ServiceLoopEnd
    \/ ServiceCallFallback
    \/ ServiceCallParse
    \/ ServiceReturn

SpecService == InitService /\ [][NextService]_vars

---------------------------------------------------------------------------
(* Requests that run to their end: the store query and every LLM call
   return or fail in finite time, and a call in progress goes on to its next
   statement, so a step that stays possible is eventually taken. *)

\* the length of the sleeps plays no part; one retry_delay is enough
InitTermination ==
    /\ store \in ServiceStores
    /\ config \in {c \in Configs : c.retry_delay <= 1}
    /\ pc = "idle"
    /\ preferences = [none |-> TRUE]
    /\ validation_result = NoValidation
    /\ filtered_restaurants = <<>>
    /\ recommendations = <<>>
    /\ attempt = 0
    /\ llm_log = <<>>
    /\ last_reply = NoReply
    /\ sleeps = <<>>
    /\ calls = NoCalls
    /\ source = "none"
    /\ response = NoResponse

SpecTermination == InitTermination /\ [][Next]_vars /\ WF_vars(Next)

---------------------------------------------------------------------------
(* The preference processor called on its own *)

ValidateValues ==
    [cuisine : {Absent, Null, Str(<<" ", "T", "h", "a", "i">>), Str(<<" ", " ">>),
                Str(<<"Z", "z">>), Num(1230)},
     location : {Absent, Str(<<"X", " ">>), Str(<<>>), Other},
     min_rating : {Absent, Num(45), Num(51), Num(-1), Str(<<"4", ".", "5">>),
                   Str(<<"a", "b", "c">>)},
     max_price : {Absent, Null, Num(250), Num(-10), Str(<<"x">>)},
     limit : {Absent, Null, Num(0), Num(10), Num(25), Num(1000), Num(1009), Num(1010),
              JInt(1), JInt(100), JInt(101), JInt(-5), Str(<<"5">>), Str(<<"2", ".", "5">>),
              Str(<<"t", "e", "n">>), Other}]

\* a normalized dictionary handed in again as raw preferences
AsRaw(normalized) ==
    [k \in {"cuisine", "location", "min_rating", "max_price", "limit"} |->
        IF ~Has(normalized, k) THEN Absent
        ELSE IF k \in {"cuisine", "location"} THEN Str(normalized[k])
        ELSE IF k \in {"min_rating", "max_price"} THEN Num(normalized[k])
        ELSE JInt(normalized[k])]

InitValidate ==
    /\ store = <<>>
    /\ config \in {c \in Configs : ~c.llm_service}
    /\ pc = "idle"
    /\ preferences = [none |-> TRUE]
    /\ validation_result = NoValidation
    /\ filtered_restaurants = <<>>
    /\ recommendations = <<>>
    /\ attempt = 0
    /\ llm_log = <<>>
    /\ last_reply = NoReply
    /\ sleeps = <<>>
    /\ calls = NoCalls
    /\ source = "none"
    /\ response = NoResponse

\* validate_and_normalize(preferences)
Validate ==
    /\ pc = "idle"
    /\ \E p \in ValidateValues :
         /\ preferences' = p
         /\ validation_result' = validate_and_normalize(p)
    /\ pc' = "validated"
    /\ UNCHANGED <<store, config, filtered_restaurants, recommendations, attempt, llm_log,
                   last_reply, sleeps, calls, source, response>>

\* validate_and_normalize(result.normalized_preferences) after a success;
\* the second result is kept in response
Revalidate ==
    /\ pc = "validated"
    /\ validation_result.is_valid
    /\ response' = validate_and_normalize(AsRaw(validation_result.normalized_preferences))
    /\ pc' = "revalidated"
    /\ UNCHANGED <<store, config, preferences, validation_result, filtered_restaurants,
                   recommendations, attempt, llm_log, last_reply, sleeps, calls, source>>

\* the caller drops the results
ValidateReturn ==
    /\ pc \in {"validated", "revalidated"}
    /\ pc' = "idle"
    /\ preferences' = [none |-> TRUE]
    /\ validation_result' = NoValidation
    /\ response' = NoResponse
    /\ UNCHANGED <<store, config, filtered_restaurants, recommendations, attempt, llm_log,
                   last_reply, sleeps, calls, source>>

NextValidate ==
    \/ Validate
    \/ Revalidate
    \/ ValidateReturn

SpecValidate == InitValidate /\ [][NextValidate]_vars

---------------------------------------------------------------------------
(* Several get_recommendations calls in flight on one engine. Every variable
   of a call is a local of its frame, so here each of them is a function of
   the request; store and config belong to the engine. A step is one of the
   five steps of get_recommendations, which touch nothing but locals. *)

MaxRequests == 2

Requests == 1..MaxRequests

NoPreferences ==
    [k \in {"cuisine", "location", "min_rating", "max_price", "limit"} |-> Absent]

ConcurrentInputs ==
    {NoPreferences,
     [NoPreferences EXCEPT !["cuisine"] = Str(<<" ", "T", "h", "a", "i">>)],
     [NoPreferences EXCEPT !["limit"] = Num(0)]}

ConcurrentReplies ==
    {[kind |-> "error"],
     [kind |-> "list", items |-> <<Dict([name |-> Str(<<"A">>), explanation |-> Str(<<"e1">>)]),
                                   Dict([name |-> Str(<<"B">>), explanation |-> Str(<<"e3">>)])>>]}

ConcurrentConfigs ==
    {c \in Configs : ~c.llm_service \/ (c.max_retries = 2 /\ c.retry_delay = 1)}

InitConcurrent ==
    /\ store \in ServiceStores
    /\ config \in ConcurrentConfigs
    /\ pc = [r \in Requests |-> "idle"]
    /\ preferences = [r \in Requests |-> [none |-> TRUE]]
    /\ validation_result = [r \in Requests |-> NoValidation]
    /\ filtered_restaurants = [r \in Requests |-> <<>>]
    /\ recommendations = [r \in Requests |-> <<>>]
    /\ attempt = [r \in Requests |-> 0]
    /\ llm_log = [r \in Requests |-> <<>>]
    /\ last_reply = [r \in Requests |-> NoReply]
    /\ sleeps = [r \in Requests |-> <<>>]
    /\ calls = [r \in Requests |-> NoCalls]
    /\ source = [r \in Requests |-> "none"]
    /\ response = [r \in Requests |-> NoResponse]

\* step 1 of request r
CValidate(r) ==
    /\ pc[r] = "idle"
    /\ \E p \in ConcurrentInputs :
         LET v == validate_and_normalize(p) IN
         /\ preferences' = [preferences EXCEPT ![r] = p]
         /\ validation_result' = [validation_result EXCEPT ![r] = v]
         /\ IF v.is_valid
            THEN /\ pc' = [pc EXCEPT ![r] = "filter"]
                 /\ UNCHANGED response
            ELSE /\ pc' = [pc EXCEPT ![r] = "done"]
                 /\ response' = [response EXCEPT ![r] =
                        [success |-> FALSE, error |-> "Invalid preferences",
                         details |-> v.errors, warnings |-> v.warnings]]
    /\ UNCHANGED <<store, config, filtered_restaurants, recommendations, attempt, llm_log,
                   last_reply, sleeps, calls, source>>

\* step 2 of request r: the store query raises
CFilterError(r) ==
    /\ pc[r] = "filter"
    /\ calls' = [calls EXCEPT ![r].store = @ + 1, ![r].errors = @ + 1]
    /\ response' = [response EXCEPT ![r] = [raised |-> "RecommendationEngineError"]]
    /\ pc' = [pc EXCEPT ![r] = "done"]
    /\ UNCHANGED <<store, config, preferences, validation_result, filtered_restaurants,
                   recommendations, attempt, llm_log, last_reply, sleeps, source>>

\* mutant: the processor keeps the normalized preferences of request 1 and
\* every query is built from them
CFilter_SharedPreferences(r) ==
    /\ pc[r] = "filter"
    /\ LET owner == IF Has(validation_result[1], "is_valid") /\ validation_result[1].is_valid
                    THEN 1 ELSE r
           prefs == validation_result[owner].normalized_preferences
       IN \E f \in _filter_restaurants(store, prefs, config.max_limit) :
            /\ filtered_restaurants' = [filtered_restaurants EXCEPT ![r] = f]
            /\ IF f = <<>>
               THEN /\ response' = [response EXCEPT ![r] =
                          [success |-> TRUE, recommendations |-> <<>>, returned |-> 0,
                           total_found |-> 0,
                           message |-> "No restaurants found matching your preferences",
                           filters_applied |-> get_filter_summary(prefs),
                           warnings |-> validation_result[r].warnings]]
                    /\ pc' = [pc EXCEPT ![r] = "done"]
               ELSE /\ pc' = [pc EXCEPT ![r] = "generate"]
                    /\ UNCHANGED response
    /\ calls' = [calls EXCEPT ![r].store = @ + 1]
    /\ UNCHANGED <<store, config, preferences, validation_result, recommendations,
                   attempt, llm_log, last_reply, sleeps, source>>

\* step 2 of request r: the store query returns
CFilter(r) ==
    /\ pc[r] = "filter"
    /\ LET prefs == validation_result[r].normalized_preferences
       IN \E f \in _filter_restaurants(store, prefs, config.max_limit) :
            /\ filtered_restaurants' = [filtered_restaurants EXCEPT ![r] = f]
            /\ IF f = <<>>
               THEN /\ response' = [response EXCEPT ![r] =
                          [success |-> TRUE, recommendations |-> <<>>, returned |-> 0,
                           total_found |-> 0,
                           message |-> "No restaurants found matching your preferences",
                           filters_applied |-> get_filter_summary(prefs),
                           warnings |-> validation_result[r].warnings]]
                    /\ pc' = [pc EXCEPT ![r] = "done"]
               ELSE /\ pc' = [pc EXCEPT ![r] = "generate"]
                    /\ UNCHANGED response
    /\ calls' = [calls EXCEPT ![r].store = @ + 1]
    /\ UNCHANGED <<store, config, preferences, validation_result, recommendations,
                   attempt, llm_log, last_reply, sleeps, source>>

\* step 3 of request r without an LLM service
CEngineFallback(r) ==
    /\ pc[r] = "generate"
    /\ ~config.llm_service
    /\ recommendations' = [recommendations EXCEPT ![r] =
          _generate_fallback_recommendations(filtered_restaurants[r],
              Get(validation_result[r].normalized_preferences, "limit", config.default_limit))]
    /\ source' = [source EXCEPT ![r] = "engine_fallback"]
    /\ pc' = [pc EXCEPT ![r] = "enrich"]
    /\ UNCHANGED <<store, config, preferences, validation_result, filtered_restaurants,
                   attempt, llm_log, last_reply, sleeps, calls, response>>

\* step 3 of request r: one iteration of the retry loop; the last failure
\* raises LLMServiceError, which the engine answers with the service's
\* fallback
CLLMAttempt(r) ==
    /\ pc[r] = "generate"
    /\ config.llm_service
    /\ attempt[r] < config.max_retries
    /\ \E reply \in ConcurrentReplies :
         /\ last_reply' = [last_reply EXCEPT ![r] = reply]
         /\ IF ~ParseFails(reply)
            THEN /\ recommendations' = [recommendations EXCEPT ![r] = _parse_response(reply)]
                 /\ source' = [source EXCEPT ![r] = "llm"]
                 /\ pc' = [pc EXCEPT ![r] = "enrich"]
                 /\ UNCHANGED <<attempt, sleeps>>
            ELSE IF attempt[r] < config.max_retries - 1
            THEN /\ sleeps' = [sleeps EXCEPT ![r] =
                                  Append(@, BackoffDelay(config.retry_delay, attempt[r]))]
                 /\ attempt' = [attempt EXCEPT ![r] = @ + 1]
                 /\ UNCHANGED <<recommendations, source, pc>>
            ELSE /\ recommendations' = [recommendations EXCEPT ![r] =
                       generate_fallback_recommendations(filtered_restaurants[r],
                           Get(validation_result[r].normalized_preferences, "limit",
                               config.default_limit))]
                 /\ source' = [source EXCEPT ![r] = "llm_fallback"]
                 /\ pc' = [pc EXCEPT ![r] = "enrich"]
                 /\ UNCHANGED <<attempt, sleeps>>
    /\ calls' = [calls EXCEPT ![r].llm = @ + 1]
    /\ UNCHANGED <<store, config, preferences, validation_result, filtered_restaurants,
                   llm_log, response>>

\* mutant: total_found counts the shortlist
CEnrich_CountsShortlist(r) ==
    /\ pc[r] = "enrich"
    /\ LET enriched_recommendations ==
               _enrich_recommendations(recommendations[r], filtered_restaurants[r])
       IN response' = [response EXCEPT ![r] =
              [success |-> TRUE,
               recommendations |-> enriched_recommendations,
               total_found |-> Len(recommendations[r]),
               returned |-> Len(enriched_recommendations),
               filters_applied |-> get_filter_summary(validation_result[r].normalized_preferences),
               warnings |-> validation_result[r].warnings]]
    /\ pc' = [pc EXCEPT ![r] = "done"]
    /\ UNCHANGED <<store, config, preferences, validation_result, filtered_restaurants,
                   recommendations, attempt, llm_log, last_reply, sleeps, calls, source>>

\* steps 4 and 5 of request r
CEnrich(r) ==
    /\ pc[r] = "enrich"
    /\ LET enriched_recommendations ==
               _enrich_recommendations(recommendations[r], filtered_restaurants[r])
       IN response' = [response EXCEPT ![r] =
              [success |-> TRUE,
               recommendations |-> enriched_recommendations,
               total_found |-> Len(filtered_restaurants[r]),
               returned |-> Len(enriched_recommendations),
               filters_applied |-> get_filter_summary(validation_result[r].normalized_preferences),
               warnings |-> validation_result[r].warnings]]
    /\ pc' = [pc EXCEPT ![r] = "done"]
    /\ UNCHANGED <<store, config, preferences, validation_result, filtered_restaurants,
                   recommendations, attempt, llm_log, last_reply, sleeps, calls, source>>

NextConcurrent ==
    \E r \in Requests :
        \/ CValidate(r)
        \/ CFilterError(r)
        \/ CFilter(r)
        \/ CEngineFallback(r)
        \/ CLLMAttempt(r)
        \/ CEnrich(r)

SpecConcurrent == InitConcurrent /\ [][NextConcurrent]_vars

---------------------------------------------------------------------------
(* Health check of the engine *)

RECURSIVE SumField(_, _)
SumField(rows, f) == IF rows = <<>> THEN 0 ELSE Head(rows)[f] + SumField(Tail(rows), f)

\* DatabaseService.get_stats on a store that answers; averages in hundredths,
\* rounded to the nearest
get_stats(rows) ==
    LET n == Len(rows)
        sum(f) == SumField(rows, f)
        avg(f) == IF n = 0 THEN 0 ELSE (10 * sum(f) + (n \div 2)) \div n
    IN [total_restaurants |-> n,
        unique_cuisines |-> Cardinality({rows[i].cuisine : i \in 1..n}),
        unique_locations |-> Cardinality({rows[i].location : i \in 1..n}),
        average_rating |-> avg("rating"),
        average_price |-> avg("price")]

\* what the probe call of LLMService.health_check may do: the API call
\* succeeds, fails (caught by the service), or the method itself raises
LLMProbes == {"ok", "api_error", "raises"}

\* LLMService.health_check when it returns
llm_health_check(probe) ==
    IF probe = "ok"
    THEN [status |-> "healthy", api_accessible |-> TRUE]
    ELSE [status |-> "unhealthy", api_accessible |-> FALSE, error |-> "error"]

\* the database part of health_check
DatabaseHealth(rows, stats_ok) ==
    IF stats_ok
    THEN LET stats == get_stats(rows) IN
         IF stats.total_restaurants > 0
         THEN [database |-> "healthy", database_stats |-> stats]
         ELSE [database |-> "unhealthy", database_error |-> "No restaurants in database"]
    ELSE [database |-> "unhealthy", database_error |-> "error"]

\* the LLM part of health_check
LLMHealth(llm_service, probe) ==
    IF llm_service
    THEN IF probe = "raises"
         THEN [llm_service |-> "unhealthy", llm_error |-> "error"]
         ELSE [llm_service |-> llm_health_check(probe).status]
    ELSE [llm_service |-> "not_configured"]

\* mutant: an unhealthy LLM degrades the overall status
OverallStatus_NeedsLLM(database, llm_service) ==
    IF database = "healthy" /\ llm_service # "unhealthy" THEN "healthy" ELSE "degraded"

\* the overall status of health_check
OverallStatus(database, llm_service) ==
    IF database = "healthy" THEN "healthy" ELSE "degraded"

\* the union of records with disjoint fields
Merge(f, g) == [k \in DOMAIN f \cup DOMAIN g |-> IF k \in DOMAIN f THEN f[k] ELSE g[k]]

health_check(rows, stats_ok, llm_service, probe) ==
    LET db == DatabaseHealth(rows, stats_ok)
        llm == LLMHealth(llm_service, probe)
    IN Merge(Merge([engine |-> "healthy", preference_processor |-> "healthy"], db),
             Merge(llm, [status |-> OverallStatus(db.database, llm.llm_service)]))

\* RecommendationEngine.health_check; last_reply keeps what the probes did
HealthCheck ==
    /\ pc = "idle"
    /\ \E stats_ok \in BOOLEAN, probe \in LLMProbes :
         /\ config.llm_service \/ probe = "ok"
         /\ last_reply' = [kind |-> "probe", stats_ok |-> stats_ok, llm |-> probe]
         /\ response' = health_check(store, stats_ok, config.llm_service, probe)
    /\ pc' = "done"
    /\ UNCHANGED <<store, config, preferences, validation_result, filtered_restaurants,
                   recommendations, attempt, llm_log, sleeps, calls, source>>

NextHealth ==
    \/ HealthCheck
    \/ Return

SpecHealth == Init /\ [][NextHealth]_vars

---------------------------------------------------------------------------
(* An engine built without an LLM service, on stores of up to MaxStoreNoLLM
   rows *)

MaxStoreNoLLM == 3

InitNoLLM ==
    /\ store \in SeqsUpTo(StoreRows, MaxStoreNoLLM)
    /\ config \in {c \in Configs : ~c.llm_service}
    /\ pc = "idle"
    /\ preferences = [none |-> TRUE]
    /\ validation_result = NoValidation
    /\ filtered_restaurants = <<>>
    /\ recommendations = <<>>
    /\ attempt = 0
    /\ llm_log = <<>>
    /\ last_reply = NoReply
    /\ sleeps = <<>>
    /\ calls = NoCalls
    /\ source = "none"
    /\ response = NoResponse

NextNoLLM ==
    \/ ValidateInvalid
    \/ ValidateOk
    \/ FilterError
    \/ FilterEmpty
    \/ FilterFound
    \/ EngineFallback
    \/ Enrich
    \/ Return

SpecNoLLM == InitNoLLM /\ [][NextNoLLM]_vars

---------------------------------------------------------------------------
(* An engine without an LLM service under every accepted EngineConfig *)

\* the checks of EngineConfig.validate on the limits
EngineConfig_validate(c) ==
    /\ ~(c.default_limit < 1)
    /\ ~(c.max_limit < c.default_limit)

EngineConfigs ==
    {c \in [llm_service : {FALSE}, max_retries : {0}, retry_delay : {0},
            default_limit : {0, 1, 2, 10}, max_limit : {0, 1, 2, 10, 100}] :
        EngineConfig_validate(c)}

InitEngineConfig ==
    /\ store \in Stores
    /\ config \in EngineConfigs
    /\ pc = "idle"
    /\ preferences = [none |-> TRUE]
    /\ validation_result = NoValidation
    /\ filtered_restaurants = <<>>
    /\ recommendations = <<>>
    /\ attempt = 0
    /\ llm_log = <<>>
    /\ last_reply = NoReply
    /\ sleeps = <<>>
    /\ calls = NoCalls
    /\ source = "none"
    /\ response = NoResponse

SpecEngineConfig == InitEngineConfig /\ [][NextNoLLM]_vars

---------------------------------------------------------------------------
(* The two rule-based rankers on the same retriever output: after step 2 the
   candidates are handed both to the engine's ranker and to the LLM
   service's, with every limit up to MaxRankLimit. *)

MaxRankLimit == 3

RankBoth ==
    /\ pc = "generate"
    /\ \E n \in 1..MaxRankLimit :
         /\ recommendations' = _generate_fallback_recommendations(filtered_restaurants, n)
         /\ response' = [limit |-> n,
                         service |-> generate_fallback_recommendations(filtered_restaurants, n)]
    /\ calls' = [calls EXCEPT !.engine_fallback = @ + 1, !.llm_fallback = @ + 1]
    /\ pc' = "done"
    /\ UNCHANGED <<store, config, preferences, validation_result, filtered_restaurants,
                   attempt, llm_log, last_reply, sleeps, source>>

NextRankers ==
    \/ ValidateInvalid
    \/ ValidateOk
    \/ FilterError
    \/ FilterEmpty
    \/ FilterFound
    \/ RankBoth
    \/ Return

SpecRankers == InitNoLLM /\ [][NextRankers]_vars

---------------------------------------------------------------------------
(* Vocabulary of the properties *)

Returned == pc = "done" /\ Has(response, "success")
Succeeded == Returned /\ response.success
Raised == pc = "done" /\ Has(response, "raised")

AllFailed == \A i \in 1..Len(llm_log) : llm_log[i] = "fail"
SomeOk == \E i \in 1..Len(llm_log) : llm_log[i] = "ok"

\* a reply that decodes to a list of items none of which is a valid item
ZeroValid(r) ==
    /\ r.kind \in {"list", "dict"}
    /\ \A i \in 1..Len(r.items) : ~IsValidItem(r.items[i])

RECURSIVE SumSeq(_)
SumSeq(q) == IF q = <<>> THEN 0 ELSE Head(q) + SumSeq(Tail(q))

\* (name, location) identity of a row or of an enriched entry; a degraded
\* entry has no location
EntryIdentity(e) ==
    <<Lower(e.name), IF Has(e, "location") THEN Lower(e.location) ELSE <<>> >>

NoDuplicateIdentity(q) ==
    \A i, j \in 1..Len(q) : i < j => EntryIdentity(q[i]) # EntryIdentity(q[j])

\* the rows of the store that satisfy the filters of the current request
MatchingRows == {i \in 1..Len(store) : RowMatches(store[i], normalized_prefs)}

\* a request whose preferences passed validation
ValidRequest == Has(validation_result, "is_valid") /\ validation_result.is_valid

\* a direct call of a method of the LLM service
DirectCall(method) == Has(preferences, "direct") /\ preferences.direct = method

---------------------------------------------------------------------------
(* Properties *)

\* C1: whenever retrieval found at least one candidate, get_recommendations
\* returns success=true whatever the LLM calls did; no LLM failure reaches
\* the caller as an exception or as success=false.
C1_LLMErrorNeverReachesCaller ==
    /\ (pc = "done" /\ filtered_restaurants # <<>>) => Succeeded
    /\ pc = "llm_error" => filtered_restaurants # <<>> /\ response = NoResponse

\* C1 witness: every attempt failed, the fallback ran, the result is a success
C1_Witness ==
    /\ Succeeded
    /\ config.max_retries >= 2
    /\ Len(llm_log) = config.max_retries
    /\ AllFailed
    /\ source = "llm_fallback"
    /\ response.returned > 0

C3_ReturnedWithinLimit ==
    Succeeded =>
        /\ response.returned = Len(response.recommendations)
        /\ response.returned <= limit

\* C4: a successful result has total_found >= returned.
C4_TotalFoundAtLeastReturned ==
    Succeeded => response.total_found >= response.returned

\* C5: a successful result with total_found > 0 has returned > 0.
C5_CandidatesGiveRecommendations ==
    (Succeeded /\ response.total_found > 0) => response.returned > 0

\* C6: neither the candidates produced by _filter_restaurants nor the
\* entries produced by _enrich_recommendations hold two entries of the same
\* (lowercased name, lowercased location) identity.
C6_NoDuplicateIdentities ==
    /\ NoDuplicateIdentity(filtered_restaurants)
    /\ Succeeded => NoDuplicateIdentity(response.recommendations)

\* C6 witness: the store returned rows of one identity, the retriever dropped
\* the repetition, and the request ended with recommendations
C6_Witness ==
    /\ Succeeded
    /\ \E i, j \in MatchingRows : i < j /\ EntryIdentity(store[i]) = EntryIdentity(store[j])
    /\ Len(filtered_restaurants) < Cardinality(MatchingRows)
    /\ response.returned > 0

\* C7: with an LLM service, the rule-based fallback runs only after
\* max_retries attempts of the request have all failed; once an attempt
\* succeeded the fallback never runs and the shortlist is the parsed reply.
C7_FallbackOnlyAfterRetries ==
    config.llm_service =>
        /\ calls.engine_fallback = 0
        /\ (calls.llm_fallback > 0 \/ pc = "llm_error") =>
              /\ calls.llm = config.max_retries
              /\ Len(llm_log) = config.max_retries
              /\ AllFailed
        /\ SomeOk =>
              /\ calls.llm_fallback = 0
              /\ pc \in {"enrich", "done"}
              /\ source = "llm"
              /\ recommendations = _parse_response(last_reply)

\* C7 witness: the fallback ran after three failed attempts
C7_Witness ==
    /\ config.llm_service
    /\ config.max_retries = 3
    /\ calls.llm_fallback = 1
    /\ source = "llm_fallback"
    /\ pc = "enrich"

\* C8: the LLM calls of a request are sequential, stop at the first attempt
\* that is parsed, number exactly max_retries when all fail (and then
\* LLMServiceError is raised), and never exceed max_retries.
C8_AttemptsBounded ==
    /\ calls.llm = Len(llm_log)
    /\ calls.llm <= config.max_retries
    /\ \A i \in 1..(Len(llm_log) - 1) : llm_log[i] = "fail"
    /\ SomeOk => pc \in {"enrich", "done"}
    /\ pc = "generate" => attempt = calls.llm
    /\ pc = "llm_error" => calls.llm = config.max_retries /\ AllFailed
    /\ (llm_log # <<>> /\ AllFailed /\ pc \in {"enrich", "done"}) =>
          calls.llm = config.max_retries /\ source = "llm_fallback"

\* C8 witness: LLMServiceError raised after exactly max_retries failed calls
C8_Witness ==
    /\ pc = "llm_error"
    /\ config.max_retries = 3
    /\ calls.llm = 3
    /\ AllFailed

\* C9: the i-th wait of a request is retry_delay * 2^(i-1); a failed attempt
\* is followed by a wait unless it was the last one; when every attempt
\* failed the waits total retry_delay * (2^(max_retries-1) - 1).
C9_ExponentialBackoff ==
    /\ \A i \in 1..Len(sleeps) : sleeps[i] = config.retry_delay * (2 ^ (i - 1))
    /\ pc = "generate" => Len(sleeps) = Len(llm_log)
    /\ (llm_log # <<>> /\ pc # "generate") => Len(sleeps) = Len(llm_log) - 1
    /\ (pc = "llm_error" \/ source = "llm_fallback") =>
          /\ Len(sleeps) = config.max_retries - 1
          /\ SumSeq(sleeps) = config.retry_delay * ((2 ^ (config.max_retries - 1)) - 1)

\* C9 witness: three failed attempts with retry_delay 2 waited 2 and then 4
C9_Witness ==
    /\ pc = "llm_error"
    /\ config.max_retries = 3
    /\ config.retry_delay = 2
    /\ sleeps = <<2, 4>>

\* C10: when validation recorded an error, the request has ended with
\* {success: false, error, details = the errors, warnings} and has made no
\* store query, no LLM call and no fallback ranking.
C10_InvalidPreferencesStopRequest ==
    (Has(validation_result, "errors") /\ validation_result.errors # <<>>) =>
        /\ pc = "done"
        /\ response = [success |-> FALSE, error |-> "Invalid preferences",
                       details |-> validation_result.errors,
                       warnings |-> validation_result.warnings]
        /\ calls = NoCalls
        /\ llm_log = <<>>
        /\ filtered_restaurants = <<>>
        /\ recommendations = <<>>

\* C10 witness: a request rejected with two errors
C10_Witness ==
    /\ pc = "done"
    /\ Has(response, "details")
    /\ Len(response.details) >= 2
    /\ response.success = FALSE

\* C11: when no row of the store matches valid preferences, the request
\* never reaches step 3 and ends with success=true, recommendations=[],
\* returned=0, total_found=0 and a message, without any LLM call or fallback
\* ranking; a direct generate_recommendations call on an empty candidate
\* list returns [] without calling the LLM.
C11_EmptyRetrievalIsEmptySuccess ==
    /\ (ValidRequest /\ calls.errors = 0 /\ MatchingRows = {}) =>
          /\ pc \in {"filter", "done"}
          /\ calls.llm = 0 /\ calls.llm_fallback = 0 /\ calls.engine_fallback = 0
          /\ llm_log = <<>>
          /\ pc = "done" =>
                /\ DOMAIN response = {"success", "recommendations", "returned", "total_found",
                                      "message", "filters_applied", "warnings"}
                /\ response.success = TRUE
                /\ response.recommendations = <<>>
                /\ response.returned = 0
                /\ response.total_found = 0
    /\ (DirectCall("generate_recommendations") /\ filtered_restaurants = <<>>) =>
          /\ pc \in {"svc_generate", "svc_returned"}
          /\ recommendations = <<>>
          /\ calls.llm = 0
          /\ llm_log = <<>>
          /\ sleeps = <<>>

\* C11 witness: a request on a store that holds rows, none of which matches,
\* answered with the empty success although an LLM is configured
C11_Witness ==
    /\ Succeeded
    /\ ValidRequest
    /\ store # <<>>
    /\ MatchingRows = {}
    /\ config.llm_service
    /\ config.max_retries > 0
    /\ Has(response, "message")
    /\ response.returned = 0

\* C12: an exception other than LLMServiceError inside get_recommendations
\* (a failed store query, an unexpected exception of a later step) ends the
\* request with RecommendationEngineError: it is not answered with a
\* success or a failure envelope, and after a failed store query no LLM call
\* and no fallback ranking is made; the request raises for no other reason.
C12_NonLLMFailureIsRaised ==
    /\ calls.errors > 0 =>
          /\ pc = "done"
          /\ response = [raised |-> "RecommendationEngineError"]
    /\ (calls.errors > 0 /\ filtered_restaurants = <<>>) =>
          /\ calls.llm = 0 /\ calls.llm_fallback = 0 /\ calls.engine_fallback = 0
          /\ recommendations = <<>>
    /\ Raised => calls.errors > 0

\* C12 witness: the store query of a valid request failed and the request
\* raised, although an LLM and a non-empty store were there
C12_Witness ==
    /\ Raised
    /\ ValidRequest
    /\ calls.store = 1
    /\ calls.errors = 1
    /\ filtered_restaurants = <<>>
    /\ MatchingRows # {}
    /\ config.llm_service

\* C13: with no LLM configured, the ratings of the recommendations of a
\* successful result are non-increasing, whatever the store holds.
C13_FallbackRatingsNonIncreasing ==
    (Succeeded /\ ~config.llm_service) =>
        \A i, j \in 1..Len(response.recommendations) :
            (i < j /\ Has(response.recommendations[i], "rating")
                   /\ Has(response.recommendations[j], "rating")) =>
                response.recommendations[i].rating >= response.recommendations[j].rating

\* the candidate a fallback item was made from: the item carries the name
\* and, in its explanation, the rating of that candidate
CandidateOf(item, restaurants) ==
    CHOOSE k \in 1..Len(restaurants) :
        /\ restaurants[k].name = item.name
        /\ restaurants[k].rating = item.explanation[2]

\* C14: for every candidate list in any order, the fallback ranking of the
\* LLM service returns at most limit items, by rating descending, and items
\* of equal rating by price ascending.
C14_ServiceFallbackOrdered ==
    (pc = "svc_returned" /\ DirectCall("generate_fallback_recommendations")) =>
        /\ Len(recommendations) <= preferences.limit
        /\ \A i, j \in 1..Len(recommendations) :
              i < j =>
                LET a == filtered_restaurants[CandidateOf(recommendations[i], filtered_restaurants)]
                    b == filtered_restaurants[CandidateOf(recommendations[j], filtered_restaurants)]
                IN \/ a.rating > b.rating
                   \/ (a.rating = b.rating /\ a.price <= b.price)

\* the fields given in the raw preferences that their validator rejects
InvalidFields(p) ==
    {k \in {"cuisine", "location", "min_rating", "max_price", "limit"} :
        IsPresent(p[k]) /\ ~FieldCheck(p, k).valid}

\* C15: is_valid is false exactly when errors is non-empty; a warning never
\* invalidates; every field is checked even after an earlier one failed, so
\* errors holds one message per invalid field.
C15_InvalidIffErrors ==
    pc = "validated" =>
        /\ (~validation_result.is_valid) <=> (validation_result.errors # <<>>)
        /\ Len(validation_result.errors) = Cardinality(InvalidFields(preferences))
        /\ (validation_result.warnings # <<>> /\ InvalidFields(preferences) = {}) =>
              validation_result.is_valid
        /\ validation_result.warnings # <<>> =>
              Has(validation_result.normalized_preferences, "cuisine")

\* C15 witness: all five fields are invalid and five errors are reported
C15_Witness ==
    /\ pc = "validated"
    /\ Cardinality(InvalidFields(preferences)) = 5
    /\ Len(validation_result.errors) = 5
    /\ ~validation_result.is_valid

\* C16: validating the normalized preferences of a valid result again gives
\* a valid result with the same normalized preferences, no error, and no
\* warning that the first result did not have.
C16_ValidateIdempotent ==
    pc = "revalidated" =>
        /\ response.is_valid
        /\ response.errors = <<>>
        /\ response.normalized_preferences = validation_result.normalized_preferences
        /\ \A i \in 1..Len(response.warnings) :
              \E j \in 1..Len(validation_result.warnings) :
                  response.warnings[i] = validation_result.warnings[j]

\* C16 witness: raw input that normalization changed in every field (case,
\* blanks, a numeral string, limits defaulted or truncated) validated twice
C16_Witness ==
    /\ pc = "revalidated"
    /\ preferences.cuisine = Str(<<"Z", "z">>)
    /\ preferences.location = Str(<<"X", " ">>)
    /\ preferences.min_rating = Str(<<"4", ".", "5">>)
    /\ preferences.max_price = Num(250)
    /\ preferences.limit = Num(25)
    /\ validation_result.warnings # <<>>
    /\ response.normalized_preferences =
          [cuisine |-> <<"z", "z">>, location |-> <<"x">>, min_rating |-> 45,
           max_price |-> 250, limit |-> 2]

\* C17: a limit that int() accepts is valid, and normalized to its integer
\* value, exactly when that value lies in 1..100; otherwise the range error
\* is reported and no limit is normalized; an absent or null limit is
\* normalized to 10.
C17_LimitRange ==
    pc = "validated" =>
        LET l == preferences.limit
            n == validation_result.normalized_preferences
            others_ok == InvalidFields(preferences) \subseteq {"limit"}
        IN /\ (IsPresent(l) /\ IntOk(l)) =>
                 /\ (Has(n, "limit") /\ n.limit = IntValue(l)) <=>
                       (1 <= IntValue(l) /\ IntValue(l) <= 100)
                 /\ Has(n, "limit") <=> (1 <= IntValue(l) /\ IntValue(l) <= 100)
                 /\ others_ok =>
                       (validation_result.is_valid <=> (1 <= IntValue(l) /\ IntValue(l) <= 100))
                 /\ l.t = "num" => (Has(n, "limit") <=> (10 <= l.v /\ l.v < 1010))
                 /\ (l.t = "num" /\ Has(n, "limit")) =>
                       (10 * n.limit <= l.v /\ l.v < 10 * n.limit + 10)
           /\ ~IsPresent(l) => (Has(n, "limit") /\ n.limit = 10)

\* C17 witness: the limit 100.9 is accepted as 100
C17_Witness ==
    /\ pc = "validated"
    /\ preferences.limit = Num(1009)
    /\ validation_result.is_valid
    /\ validation_result.normalized_preferences.limit = 100

\* C18: health_check always returns; its overall status is 'healthy'
\* exactly when the statistics query succeeded and counted at least one
\* restaurant, and 'degraded' otherwise, whatever the LLM status is; the
\* LLM status is healthy, unhealthy or not_configured.
C18_HealthFollowsStore ==
    (pc = "done" /\ last_reply.kind = "probe") =>
        /\ Has(response, "status") /\ ~Has(response, "raised")
        /\ response.status \in {"healthy", "degraded"}
        /\ response.status = "healthy" <=> (last_reply.stats_ok /\ Len(store) > 0)
        /\ response.database = "healthy" <=> (last_reply.stats_ok /\ Len(store) > 0)
        /\ response.llm_service \in {"healthy", "unhealthy", "not_configured"}
        /\ response.llm_service = "not_configured" <=> ~config.llm_service
        /\ (config.llm_service /\ last_reply.llm # "ok") => response.llm_service = "unhealthy"

\* C18 witness: the LLM probe raised and the store is healthy: the overall
\* status is healthy
C18_Witness ==
    /\ pc = "done"
    /\ last_reply.kind = "probe"
    /\ last_reply.llm = "raises"
    /\ last_reply.stats_ok
    /\ Len(store) > 0
    /\ response.llm_service = "unhealthy"
    /\ response.status = "healthy"

\* the candidates whose name equals the given one case-insensitively
Namesakes(name) ==
    {k \in 1..Len(filtered_restaurants) :
        Lower(filtered_restaurants[k].name) = Lower(name)}

\* C19: every entry of a successful result either bears the name of a
\* candidate (case-insensitively) together with that candidate's cuisine,
\* location, rating and price, or is a degraded entry of a name no candidate
\* bears, holding only name, explanation and the note; a shortlist item of
\* an unmatched name does not fail the request, it comes out degraded.
C19_EnrichedOrDegraded ==
    Succeeded =>
        /\ \A i \in 1..Len(response.recommendations) :
              LET e == response.recommendations[i] IN
              IF Has(e, "note")
              THEN /\ DOMAIN e = {"name", "explanation", "note"}
                   /\ e.note = "Full details not available"
                   /\ Namesakes(e.name) = {}
              ELSE /\ DOMAIN e = {"name", "cuisine", "location", "rating", "price",
                                  "explanation"}
                   /\ \E k \in Namesakes(e.name) :
                         LET r == filtered_restaurants[k] IN
                         /\ e.name = r.name
                         /\ e.cuisine = r.cuisine
                         /\ e.location = r.location
                         /\ e.rating = r.rating
                         /\ e.price = r.price
        /\ \A j \in 1..Len(recommendations) :
              Namesakes(recommendations[j].name) = {} =>
                  \E i \in 1..Len(response.recommendations) :
                      /\ Has(response.recommendations[i], "note")
                      /\ Lower(response.recommendations[i].name) = Lower(recommendations[j].name)

\* C19 witness: a result holding an entry with full data and a degraded one
C19_Witness ==
    /\ Succeeded
    /\ Len(response.recommendations) = 2
    /\ ~Has(response.recommendations[1], "note")
    /\ Has(response.recommendations[2], "note")
    /\ response.recommendations[1].rating = filtered_restaurants[1].rating

\* an item that carries a non-empty name string and a non-empty explanation
\* string
WellFormed(item) ==
    /\ item.isdict
    /\ Has(item.d, "name") /\ Has(item.d, "explanation")
    /\ item.d["name"].t = "str" /\ item.d["name"].v # <<>>
    /\ item.d["explanation"].t = "str" /\ item.d["explanation"].v # <<>>

\* C20: _parse_response keeps only items that carry a non-empty name string
\* and a non-empty explanation string; an item whose name or explanation is
\* missing, empty or not a string never appears in the shortlist.
C20_MalformedItemsDropped ==
    (pc = "svc_returned" /\ DirectCall("_parse_response")) =>
        \A j \in 1..Len(recommendations) :
            \E i \in 1..Len(last_reply.items) :
                /\ WellFormed(last_reply.items[i])
                /\ recommendations[j].name = last_reply.items[i].d["name"].v
                /\ recommendations[j].explanation = last_reply.items[i].d["explanation"].v

\* the positions of the valid items of a response whose name, compared
\* case-insensitively, no earlier valid item bears
FirstOccurrences(items) ==
    {i \in 1..Len(items) :
        /\ IsValidItem(items[i])
        /\ \A j \in 1..(i - 1) :
              IsValidItem(items[j]) =>
                  Lower(PyStr(items[j].d["name"])) # Lower(PyStr(items[i].d["name"]))}

\* the n-th smallest element of a set of numbers
Nth(S, n) == CHOOSE i \in S : Cardinality({j \in S : j < i}) = n - 1

\* C21: the shortlist parsed from one response holds, in the order of the
\* response, exactly the first occurrence of every name (compared
\* case-insensitively) with its own explanation.
C21_FirstOccurrenceKept ==
    (last_reply.kind \in {"list", "dict"} /\ pc \in {"enrich", "done", "svc_returned"}) =>
        LET kept == FirstOccurrences(last_reply.items) IN
        /\ Len(recommendations) = Cardinality(kept)
        /\ \A n \in 1..Len(recommendations) :
              LET item == last_reply.items[Nth(kept, n)] IN
              /\ recommendations[n].name = PyStr(item.d["name"])
              /\ recommendations[n].explanation = PyStr(item.d["explanation"])
        /\ \A m, n \in 1..Len(recommendations) :
              m # n => Lower(recommendations[m].name) # Lower(recommendations[n].name)

\* C21 witness: of two items whose names differ only in case the second is
\* dropped
C21_Witness ==
    /\ pc = "enrich"
    /\ last_reply.kind = "list"
    /\ Len(last_reply.items) = 2
    /\ IsValidItem(last_reply.items[1]) /\ IsValidItem(last_reply.items[2])
    /\ last_reply.items[1].d["name"] = Str(<<"a">>)
    /\ last_reply.items[2].d["name"] = Str(<<"A">>)
    /\ recommendations = <<[name |-> <<"a">>, explanation |-> <<"e2">>]>>

\* C22: for every accepted engine configuration and every valid request,
\* the cap given to the store query (config.max_limit) is at least the
\* normalized limit of the request.
C22_CapAtLeastLimit ==
    ValidRequest => config.max_limit >= limit

\* C23: filters_applied of a successful result holds only fields that the
\* raw preferences supplied (present and not null); a defaulted limit is
\* not among them.
C23_OnlySuppliedFilters ==
    Succeeded =>
        \A k \in DOMAIN response.filters_applied : IsPresent(preferences[k])

\* the text p occurs in the text t, letter case aside
Contains(t, p) ==
    \E i \in 0..(Len(t) - Len(p)) : SubSeq(Lower(t), i + 1, i + Len(p)) = Lower(p)

\* C25: every entry of a successful result that carries the data of a
\* record satisfies every filter of the normalized preferences: its cuisine
\* and its location contain the requested text (case-insensitively), its
\* rating is >= min_rating and its price is <= max_price.
C25_ResultsSatisfyFilters ==
    Succeeded =>
        \A i \in 1..Len(response.recommendations) :
            LET e == response.recommendations[i] IN
            ~Has(e, "note") =>
                /\ Has(normalized_prefs, "cuisine") =>
                      Contains(e.cuisine, normalized_prefs["cuisine"])
                /\ Has(normalized_prefs, "location") =>
                      Contains(e.location, normalized_prefs["location"])
                /\ Has(normalized_prefs, "min_rating") =>
                      e.rating >= normalized_prefs["min_rating"]
                /\ Has(normalized_prefs, "max_price") =>
                      e.price <= normalized_prefs["max_price"]


\* request r has returned a success envelope carrying the counts
CSucceeded(r) == pc[r] = "done" /\ Has(response[r], "total_found")

\* C24: two calls with identical preferences over the same store report the
\* same total_found and the same filters_applied, whichever way their
\* shortlists were produced (LLM reply, LLM fallback, engine fallback)
C24_SameCountsForSamePreferences ==
    \A r1 \in Requests : \A r2 \in Requests :
        (CSucceeded(r1) /\ CSucceeded(r2) /\ preferences[r1] = preferences[r2])
            => /\ response[r1].total_found = response[r2].total_found
               /\ response[r1].filters_applied = response[r2].filters_applied

C24_Witness ==
    /\ CSucceeded(1) /\ CSucceeded(2)
    /\ preferences[1] = preferences[2]
    /\ source[1] = "llm" /\ source[2] = "llm_fallback"
    /\ response[1].recommendations # response[2].recommendations
    /\ response[1].total_found >= 1

\* C26: in every interleaving each request's validation result, candidate
\* list, total_found and filters_applied are what its own preferences give
\* against the store, and its retry counter stays within its own loop
C26_RequestsIsolated ==
    \A r \in Requests :
        pc[r] # "idle" =>
            LET solo == validate_and_normalize(preferences[r]) IN
            /\ validation_result[r] = solo
            /\ attempt[r] <= config.max_retries
            /\ pc[r] \in {"generate", "enrich"} =>
                  filtered_restaurants[r] \in
                      _filter_restaurants(store, solo.normalized_preferences, config.max_limit)
            /\ CSucceeded(r) =>
                  /\ filtered_restaurants[r] \in
                        _filter_restaurants(store, solo.normalized_preferences, config.max_limit)
                  /\ response[r].total_found = Len(filtered_restaurants[r])
                  /\ response[r].filters_applied = get_filter_summary(solo.normalized_preferences)
                  /\ response[r].warnings = solo.warnings

C26_Witness ==
    /\ CSucceeded(1) /\ CSucceeded(2)
    /\ preferences[1] # preferences[2]
    /\ response[1].filters_applied # response[2].filters_applied
    /\ response[1].total_found # response[2].total_found
    /\ attempt[1] # attempt[2]


\* C27: a generate_recommendations call on a non-empty candidate list that
\* returns has made at least one LLM attempt and returns the shortlist parsed
\* from the last reply; otherwise it raises LLMServiceError
C27_NoEmptyListWithoutAttempt ==
    (DirectCall("generate_recommendations") /\ filtered_restaurants # <<>>)
        => /\ pc = "svc_returned" =>
                /\ calls.llm >= 1
                /\ last_reply # NoReply
                /\ ~ParseFails(last_reply)
                /\ recommendations = _parse_response(last_reply)
           /\ pc = "svc_raised" => calls.llm >= 1


\* C28: every entry with full data carries the record of the first candidate
\* bearing its name, and under the engine's fallback the rating shown is the
\* rating its explanation was made from
C28_FirstNamesakeAttached ==
    Succeeded =>
        \A i \in 1..Len(response.recommendations) :
            LET e == response.recommendations[i] IN
            Has(e, "rating") =>
                LET first == CHOOSE k \in Namesakes(e.name) : \A j \in Namesakes(e.name) : k <= j
                    r == filtered_restaurants[first]
                IN /\ e.name = r.name
                   /\ e.location = r.location
                   /\ e.rating = r.rating
                   /\ e.price = r.price
                   /\ source = "engine_fallback" => e.explanation[2] = e.rating


\* C29: on the candidates the retriever returns and every limit, the
\* engine's rule-based ranker and the LLM service's return the same names
\* with the same explanations in the same order
C29_RankersAgree ==
    (pc = "done" /\ Has(response, "service")) => recommendations = response.service

\* two candidates of equal rating and different price, and a limit that cuts
C29_Witness ==
    /\ pc = "done" /\ Has(response, "service")
    /\ response.limit < Len(filtered_restaurants)
    /\ \E i, j \in 1..Len(filtered_restaurants) :
          /\ filtered_restaurants[i].rating = filtered_restaurants[j].rating
          /\ filtered_restaurants[i].price < filtered_restaurants[j].price
    /\ Len(recommendations) = response.limit


\* the stages of a request in the order of get_recommendations
Stage(p) ==
    CASE p = "idle" -> 0
      [] p = "filter" -> 1
      [] p = "generate" -> 2
      [] p = "llm_error" -> 3
      [] p = "enrich" -> 4
      [] p = "done" -> 5

\* the terminal outcomes a finished request shows
Outcomes ==
    {o \in {"validation_failure", "empty", "success", "engine_error"} :
        CASE o = "validation_failure" -> Has(response, "success") /\ ~response.success
          [] o = "empty" -> Has(response, "message") /\ response.total_found = 0
          [] o = "success" -> Has(response, "total_found") /\ ~Has(response, "message")
          [] o = "engine_error" -> Has(response, "raised")}

StagesBounded ==
    /\ calls.store <= 1
    /\ calls.llm <= config.max_retries
    /\ attempt <= config.max_retries
    /\ calls.llm_fallback + calls.engine_fallback <= 1
    /\ pc = "done" => Cardinality(Outcomes) = 1
    /\ pc # "done" => response = NoResponse

\* a step moves to a later stage, or repeats the generation stage with one
\* more attempt counted, or hands the finished request back
StageOrder ==
    \/ Stage(pc') > Stage(pc)
    \/ pc = "generate" /\ pc' = "generate" /\ attempt' = attempt + 1
    \/ pc = "done" /\ pc' = "idle"

\* C30: every request that has started reaches its end with exactly one of
\* the four outcomes, going through the stages in order and each at most
\* once, with one store query and at most max_retries LLM attempts
C30_EveryRequestTerminates ==
    /\ []StagesBounded
    /\ [][StageOrder]_vars
    /\ (pc # "idle") ~> (pc = "done")

\* every attempt the configuration allows has failed and the request ended
\* with the fallback's result
C30_Witness ==
    /\ pc = "done"
    /\ Outcomes = {"success"}
    /\ config.max_retries >= 2
    /\ calls.llm = config.max_retries
    /\ source = "llm_fallback"

============================================================================
